---- MODULE Spec2Model ----
(***************************************************************************)
(* Contagion simulation: the Point, Cell and Model classes of model.py.    *)
(*                                                                         *)
(* Coordinates are integers: the random source is sampled at the points    *)
(* that give integer locations and axis-aligned headings, so Point.add     *)
(* and the comparisons of enforce_bounds and check_contacts are exact.     *)
(***************************************************************************)
EXTENDS Integers, Sequences, FiniteSets, TLC

VARIABLES
    population,          \* Model.population: the cells, in creation order
    time,                \* Model.time
    initial_infections,  \* Model.initial_infections
    initial_immunities,  \* Model.initial_immunities
    status,              \* "new": no Model yet; "ok": constructed; "error":
                         \* the constructor raised; "unit"/"done": a population
                         \* handed to one operation, before/after the call
    last,                \* the last call: operation, arguments, result
    ticks,               \* history: the number of Model.tick calls made
    before               \* history: the population when the last call began

vars ==
    <<population, time, initial_infections, initial_immunities, status, last, ticks,
      before>>

(***************************************************************************)
(* Bounds of the model.                                                    *)
(***************************************************************************)
MaxCells == 3
MaxTime == 2
DriverCells == 2
UnitCells == 3
UnitReach == 2
LongCells == 2
LongTime == 183

\* The speeds handed to the constructor.
Speeds == {0, 1}

(***************************************************************************)
(* projects.pj02.constants: the module is not part of the sources; the     *)
(* values follow the specification (Vulnerable < Infected range < Immune,  *)
(* arena [MIN, MAX] on both axes, a fixed contact radius).                 *)
(***************************************************************************)
VULNERABLE == 0
INFECTED == 1
IMMUNE == 100
CELL_RADIUS == 1
BOUNDS_WIDTH == 2
BOUNDS_HEIGHT == 2
MAX_X == 1
MIN_X == -1
MAX_Y == 1
MIN_Y == -1

\* The ceiling written in Cell.tick.
CEILING == 90

(***************************************************************************)
(* Point                                                                   *)
(***************************************************************************)
Point(x, y) == [x |-> x, y |-> y]

add(self, other) == Point(self.x + other.x, self.y + other.y)

\* sqrt, rounded up to an integer: for an integer radius r,
\* sqrt(t) <= r exactly when sqrt_up(t) <= r.
sqrt_up(t) == CHOOSE r \in 0..t : r * r >= t /\ \A q \in 0..(r - 1) : q * q < t

distance(self, other) ==
    LET x_squared == (self.x - other.x) * (self.x - other.x)
        y_squared == (self.y - other.y) * (self.y - other.y)
        total == x_squared + y_squared
    IN  sqrt_up(total)

(***************************************************************************)
(* Cell                                                                    *)
(***************************************************************************)
Cell(location, direction) ==
    [location |-> location, direction |-> direction, sickness |-> VULNERABLE]

contract_disease(cell) == [cell EXCEPT !.sickness = INFECTED]

immunize(cell) == [cell EXCEPT !.sickness = IMMUNE]

is_vulnerable(cell) == cell.sickness = VULNERABLE

is_infected(cell) == cell.sickness >= INFECTED

is_immune(cell) == cell.sickness = IMMUNE

color(cell) ==
    IF is_vulnerable(cell) THEN "gray"
    ELSE IF is_immune(cell) THEN "green"
    ELSE "red"

\* Cell.tick incrementing without asking is_infected().
cell_tick_always_counts(cell) ==
    LET moved == [cell EXCEPT !.location = add(cell.location, cell.direction)]
        checked == IF moved.sickness >= CEILING THEN immunize(moved) ELSE moved
    IN  [checked EXCEPT !.sickness = checked.sickness + 1]

\* Cell.tick: move, immunize at the ceiling, then increment when infected.
cell_tick(cell) ==
    LET moved == [cell EXCEPT !.location = add(cell.location, cell.direction)]
        checked == IF moved.sickness >= CEILING THEN immunize(moved) ELSE moved
    IN  IF is_infected(checked)
        THEN [checked EXCEPT !.sickness = checked.sickness + 1]
        ELSE checked

\* contact_with without its second test: only a vulnerable self catches the
\* disease from other.
contact_with_one_way(pop, one, two) ==
    IF is_vulnerable(pop[one]) /\ is_infected(pop[two])
    THEN [pop EXCEPT ![one] = contract_disease(pop[one]),
                     ![two] = contract_disease(pop[two])]
    ELSE pop

\* self.contact_with(other) on population[one] and population[two].
contact_with(pop, one, two) ==
    IF \/ is_vulnerable(pop[one]) /\ is_infected(pop[two])
       \/ is_infected(pop[one]) /\ is_vulnerable(pop[two])
    THEN [pop EXCEPT ![one] = contract_disease(pop[one]),
                     ![two] = contract_disease(pop[two])]
    ELSE pop

(***************************************************************************)
(* Model                                                                   *)
(***************************************************************************)
\* random(): the sampled values k/4 of [0, 1), as quarters.
Quarters == 0..3

\* random_location with random() = qx/4 and qy/4, at the integer points.
LocationDraws ==
    {q \in Quarters \X Quarters :
        /\ (q[1] * BOUNDS_WIDTH) % 4 = 0
        /\ (q[2] * BOUNDS_HEIGHT) % 4 = 0}

random_location(q) ==
    Point((q[1] * BOUNDS_WIDTH) \div 4 - MAX_X, (q[2] * BOUNDS_HEIGHT) \div 4 - MAX_Y)

\* cos and sin of 2 * pi * q / 4.
cos4(q) == CASE q = 0 -> 1 [] q = 1 -> 0 [] q = 2 -> -1 [] q = 3 -> 0
sin4(q) == CASE q = 0 -> 0 [] q = 1 -> 1 [] q = 2 -> 0 [] q = 3 -> -1

random_direction(speed, q) == Point(cos4(q) * speed, sin4(q) * speed)

\* enforce_bounds whose MIN_Y branch clamps without inverting the velocity.
enforce_bounds_no_flip(cell) ==
    LET c1 == IF cell.location.x > MAX_X
              THEN [cell EXCEPT !.location.x = MAX_X,
                                !.direction.x = cell.direction.x * (-1)]
              ELSE cell
        c2 == IF c1.location.x < MIN_X
              THEN [c1 EXCEPT !.location.x = MIN_X,
                              !.direction.x = c1.direction.x * (-1)]
              ELSE c1
        c3 == IF c2.location.y > MAX_Y
              THEN [c2 EXCEPT !.location.y = MAX_Y,
                              !.direction.y = c2.direction.y * (-1)]
              ELSE c2
    IN  IF c3.location.y < MIN_Y THEN [c3 EXCEPT !.location.y = MIN_Y] ELSE c3

\* enforce_bounds: four tests in sequence, each on the cell as left by the
\* one before.
enforce_bounds(cell) ==
    LET c1 == IF cell.location.x > MAX_X
              THEN [cell EXCEPT !.location.x = MAX_X,
                                !.direction.x = cell.direction.x * (-1)]
              ELSE cell
        c2 == IF c1.location.x < MIN_X
              THEN [c1 EXCEPT !.location.x = MIN_X,
                              !.direction.x = c1.direction.x * (-1)]
              ELSE c1
        c3 == IF c2.location.y > MAX_Y
              THEN [c2 EXCEPT !.location.y = MAX_Y,
                              !.direction.y = c2.direction.y * (-1)]
              ELSE c2
        c4 == IF c3.location.y < MIN_Y
              THEN [c3 EXCEPT !.location.y = MIN_Y,
                              !.direction.y = c3.direction.y * (-1)]
              ELSE c3
    IN  c4

\* check_contacts: the pairs (cell_one, cell_two), cell_one < cell_two, in
\* the order of the two nested loops, each on the population as left by the
\* pairs before it.
RECURSIVE contacts_from(_, _, _)
contacts_from(pop, cell_one, cell_two) ==
    IF cell_one > Len(pop) THEN pop
    ELSE IF cell_two > Len(pop) THEN contacts_from(pop, cell_one + 1, cell_one + 2)
    ELSE LET check_distance == distance(pop[cell_one].location, pop[cell_two].location)
             after == IF check_distance <= CELL_RADIUS
                      THEN contact_with(pop, cell_one, cell_two)
                      ELSE pop
         IN  contacts_from(after, cell_one, cell_two + 1)

check_contacts(pop) == contacts_from(pop, 1, 2)

\* The loop of Model.tick: every cell ticked, then bounded.
move_all(pop) == [i \in 1..Len(pop) |-> enforce_bounds(cell_tick(pop[i]))]

\* Model.tick running the contact pass before the cells move.
model_tick_contacts_first(pop) == move_all(check_contacts(pop))

model_tick(pop) == check_contacts(move_all(pop))

is_complete(pop) == \A i \in 1..Len(pop) : ~is_infected(pop[i])

\* Model.__init__ immunizing from one cell too far on.
initial_population_shifted(cells, speed, infections, immunities, locs, dirs) ==
    LET created == [i \in 1..cells |->
                       Cell(random_location(locs[i]), random_direction(speed, dirs[i]))]
        infected == [i \in 1..cells |->
                        IF i <= infections
                        THEN contract_disease(created[i]) ELSE created[i]]
    IN  [i \in 1..cells |->
            IF i > infections + 1 /\ i <= infections + immunities + 1
            THEN immunize(infected[i]) ELSE infected[i]]

\* The population built by Model.__init__ once the arguments are accepted.
initial_population(cells, speed, infections, immunities, locs, dirs) ==
    LET created == [i \in 1..cells |->
                       Cell(random_location(locs[i]), random_direction(speed, dirs[i]))]
        infected == [i \in 1..cells |->
                        IF i <= infections
                        THEN contract_disease(created[i]) ELSE created[i]]
    IN  [i \in 1..cells |->
            IF i > infections /\ i <= infections + immunities
            THEN immunize(infected[i]) ELSE infected[i]]

\* Model.__init__ accepting infections + immunities == cells.
config_error_lax(cells, infections, immunities) ==
    IF infections <= 0 THEN "We don't have enough infected potatoes."
    ELSE IF immunities < 0 THEN "Can't have negative potatoes!"
    ELSE IF (infections + immunities) > cells THEN "Too few vulnerable potatoes!"
    ELSE ""

\* The ValueError raised by Model.__init__, or "" when it raises none.
config_error(cells, infections, immunities) ==
    IF infections <= 0 THEN "We don't have enough infected potatoes."
    ELSE IF immunities < 0 THEN "Can't have negative potatoes!"
    ELSE IF (infections + immunities) >= cells THEN "Too few vulnerable potatoes!"
    ELSE ""

Call(op, args, result) == [op |-> op, args |-> args, result |-> result]

\* A clock that advances by two.
next_time_twice(t) == t + 2

\* self.time += 1
next_time(t) == t + 1

Init ==
    /\ population = <<>>
    /\ time = 0
    /\ initial_infections = 0
    /\ initial_immunities = 0
    /\ status = "new"
    /\ last = Call("none", <<>>, "")
    /\ ticks = 0
    /\ before = <<>>

\* Model(cells, speed, infections, immunities), cells at most max_cells.  A
\* constructor that raises yields no Model: its fields are never seen.
ConstructUpTo(max_cells) ==
    /\ status = "new"
    /\ \E cells \in 0..max_cells, speed \in Speeds,
          infections \in -1..max_cells, immunities \in -1..max_cells :
          LET err == config_error(cells, infections, immunities)
              args == <<cells, speed, infections, immunities>>
          IN  IF err # ""
              THEN /\ status' = "error"
                   /\ last' = Call("Model", args, err)
                   /\ UNCHANGED <<population, time, initial_infections,
                                  initial_immunities, ticks, before>>
              ELSE \E locs \in [1..cells -> LocationDraws], dirs \in [1..cells -> Quarters] :
                   /\ population' = initial_population(cells, speed, infections,
                                                       immunities, locs, dirs)
                   /\ time' = 0
                   /\ initial_infections' = infections
                   /\ initial_immunities' = immunities
                   /\ status' = "ok"
                   /\ last' = Call("Model", args, "")
                   /\ UNCHANGED <<ticks, before>>

Construct == ConstructUpTo(MaxCells)

\* Model.tick()
Tick ==
    /\ status = "ok"
    /\ time < MaxTime
    /\ time' = next_time(time)
    /\ population' = model_tick(population)
    /\ last' = Call("tick", <<>>, "")
    /\ ticks' = ticks + 1
    /\ before' = population
    /\ UNCHANGED <<initial_infections, initial_immunities, status>>

Next == Construct \/ Tick

\* A Model driven by construction and tick alone.
Spec == Init /\ [][Next]_vars

(***************************************************************************)
(* A driver that also calls the other public operations of the Model.      *)
(***************************************************************************)
Bool(b) == IF b THEN "True" ELSE "False"

DriverConstruct == ConstructUpTo(DriverCells)

CallCheckContacts ==
    /\ status = "ok"
    /\ population' = check_contacts(population)
    /\ last' = Call("check_contacts", <<>>, "")
    /\ before' = population
    /\ UNCHANGED <<time, initial_infections, initial_immunities, status, ticks>>

CallEnforceBounds ==
    /\ status = "ok"
    /\ \E i \in 1..Len(population) :
          /\ population' = [population EXCEPT ![i] = enforce_bounds(@)]
          /\ last' = Call("enforce_bounds", <<i>>, "")
    /\ before' = population
    /\ UNCHANGED <<time, initial_infections, initial_immunities, status, ticks>>

CallIsComplete ==
    /\ status = "ok"
    /\ last' = Call("is_complete", <<>>, Bool(is_complete(population)))
    /\ before' = population
    /\ UNCHANGED <<population, time, initial_infections, initial_immunities,
                   status, ticks>>

DriverNext ==
    DriverConstruct \/ Tick \/ CallCheckContacts \/ CallEnforceBounds \/ CallIsComplete

SpecDriver == Init /\ [][DriverNext]_vars

(***************************************************************************)
(* A small Model ticked long enough for an infection to run its course.    *)
(***************************************************************************)
LongConstruct == ConstructUpTo(LongCells)

\* Model.tick()
LongTick ==
    /\ status = "ok"
    /\ time < LongTime
    /\ time' = next_time(time)
    /\ population' = model_tick(population)
    /\ last' = Call("tick", <<>>, "")
    /\ ticks' = ticks + 1
    /\ before' = population
    /\ UNCHANGED <<initial_infections, initial_immunities, status>>

LongNext == LongConstruct \/ LongTick

SpecLong == Init /\ [][LongNext]_vars

(***************************************************************************)
(* One operation applied once to a population handed to it: cells of any   *)
(* health the program produces, placed at and around the contact radius,   *)
(* or one cell anywhere within UnitReach of the arena, as Cell.tick leaves *)
(* it before enforce_bounds.                                               *)
(***************************************************************************)
UnitHealth == {VULNERABLE, INFECTED, CEILING - 1, CEILING, IMMUNE}

UnitPlaces == {Point(0, 0), Point(1, 0), Point(1, 1)}

ContactCells ==
    [location : UnitPlaces, direction : {Point(0, 0)}, sickness : UnitHealth]

ContactPopulations == UNION {[1..n -> ContactCells] : n \in 1..UnitCells}

BoundsCells ==
    [location : {Point(x, y) : x \in (MIN_X - UnitReach)..(MAX_X + UnitReach),
                               y \in (MIN_Y - UnitReach)..(MAX_Y + UnitReach)},
     direction : {Point(x, y) : x \in -1..1, y \in -1..1},
     sickness : {VULNERABLE}]

BoundsPopulations == {<<c>> : c \in BoundsCells}

UnitInit ==
    /\ population \in ContactPopulations \cup BoundsPopulations
    /\ time = 0
    /\ initial_infections = 0
    /\ initial_immunities = 0
    /\ status = "unit"
    /\ last = Call("none", <<>>, "")
    /\ ticks = 0
    /\ before = <<>>

UnitFrame ==
    /\ before' = population
    /\ UNCHANGED <<time, initial_infections, initial_immunities, ticks>>

\* population[i].tick()
UnitCellTick ==
    /\ status = "unit"
    /\ \E i \in 1..Len(population) :
          /\ population' = [population EXCEPT ![i] = cell_tick(@)]
          /\ last' = Call("Cell.tick", <<i>>, "")
    /\ status' = "done"
    /\ UnitFrame

\* population[i].contact_with(population[j])
UnitContactWith ==
    /\ status = "unit"
    /\ \E i, j \in 1..Len(population) :
          /\ i # j
          /\ population' = contact_with(population, i, j)
          /\ last' = Call("contact_with", <<i, j>>, "")
    /\ status' = "done"
    /\ UnitFrame

UnitCheckContacts ==
    /\ status = "unit"
    /\ population' = check_contacts(population)
    /\ last' = Call("check_contacts", <<>>, "")
    /\ status' = "done"
    /\ UnitFrame

UnitEnforceBounds ==
    /\ status = "unit"
    /\ \E i \in 1..Len(population) :
          /\ population' = [population EXCEPT ![i] = enforce_bounds(@)]
          /\ last' = Call("enforce_bounds", <<i>>, "")
    /\ status' = "done"
    /\ UnitFrame

UnitIsComplete ==
    /\ status = "unit"
    /\ last' = Call("is_complete", <<>>, Bool(is_complete(population)))
    /\ status' = "done"
    /\ UNCHANGED population
    /\ UnitFrame

\* The orders a population of n cells can be listed in.
Orders(n) == {p \in [1..n -> 1..n] : \A i, j \in 1..n : i # j => p[i] # p[j]}

\* check_contacts on the same cells listed in the order perm (perm[k] is the
\* cell at place k), each cell's result reported at its own index.
check_contacts_in_order(pop, perm) ==
    LET listed == [k \in 1..Len(pop) |-> pop[perm[k]]]
        result == check_contacts(listed)
    IN  [i \in 1..Len(pop) |-> result[CHOOSE k \in 1..Len(pop) : perm[k] = i]]

UnitCheckContactsInOrder ==
    /\ status = "unit"
    /\ \E perm \in Orders(Len(population)) :
          /\ population' = check_contacts_in_order(population, perm)
          /\ last' = Call("check_contacts_in_order", perm, "")
    /\ status' = "done"
    /\ UnitFrame

\* Model.tick() on the population handed over
UnitModelTick ==
    /\ status = "unit"
    /\ time' = next_time(time)
    /\ population' = model_tick(population)
    /\ last' = Call("tick", <<>>, "")
    /\ ticks' = ticks + 1
    /\ before' = population
    /\ status' = "done"
    /\ UNCHANGED <<initial_infections, initial_immunities>>

UnitNext ==
    UnitCellTick \/ UnitContactWith \/ UnitCheckContacts \/ UnitEnforceBounds
        \/ UnitIsComplete \/ UnitCheckContactsInOrder \/ UnitModelTick

SpecUnit == UnitInit /\ [][UnitNext]_vars

(***************************************************************************)
(* The health tiers of the specification and the contact radius, as the    *)
(* properties below read them.                                             *)
(***************************************************************************)
TierVulnerable(cell) == cell.sickness = VULNERABLE
TierInfected(cell) == cell.sickness >= INFECTED /\ cell.sickness < IMMUNE
TierImmune(cell) == cell.sickness = IMMUNE

Near(a, b) ==
    (a.location.x - b.location.x) * (a.location.x - b.location.x)
        + (a.location.y - b.location.y) * (a.location.y - b.location.y)
        <= CELL_RADIUS * CELL_RADIUS

Cells == 1..Len(population)

AfterConstruction == status = "ok" /\ last.op = "Model"
AfterTick == status = "ok" /\ last.op = "tick"
AfterUnit(op) == status = "done" /\ last.op = op

(***************************************************************************)
(* C1: across a Model.tick no cell regresses in tier: a cell infected      *)
(* before the tick is not vulnerable after it, and a cell immune before    *)
(* the tick is immune after it.                                            *)
(***************************************************************************)
C1_TierNeverRegresses ==
    AfterTick =>
        \A i \in Cells :
            /\ TierInfected(before[i]) => ~is_vulnerable(population[i])
            /\ is_immune(before[i]) => is_immune(population[i])

(***************************************************************************)
(* C2: Cell.tick on an infected cell leaves it Immune exactly when its     *)
(* counter plus one would be at or above the ceiling, and an immunized     *)
(* cell holds the Immune value itself (no increment on that tick).         *)
(***************************************************************************)
C2_ImmuneWhenCounterReachesCeiling ==
    AfterUnit("Cell.tick") =>
        LET i == last.args[1]
        IN  TierInfected(before[i]) =>
                (before[i].sickness + 1 >= CEILING
                    <=> population[i].sickness = IMMUNE)

(***************************************************************************)
(* C3: the constructor raises exactly when initial_infections <= 0, or     *)
(* initial_immunities < 0, or their sum is at least the population size;   *)
(* a constructor that raises leaves no population, and every other input   *)
(* yields a Model.                                                         *)
(***************************************************************************)
C3_ConstructionValidation ==
    [][status = "new" /\ status' # "new" =>
          LET n == last'.args[1]
              k == last'.args[3]
              m == last'.args[4]
              bad == k <= 0 \/ m < 0 \/ k + m >= n
          IN  /\ bad => status' = "error" /\ population' = <<>>
              /\ ~bad => status' = "ok" /\ Len(population') = n]_vars

C3_BoundaryAccepted ==
    /\ AfterConstruction
    /\ last.args[4] >= 1
    /\ last.args[3] + last.args[4] = last.args[1] - 1

(***************************************************************************)
(* C4: right after a successful construction with (n, speed, k, m) there   *)
(* are n cells, the first k hold the infection start value, the next m     *)
(* are immune, the rest are vulnerable, and time is 0.                     *)
(***************************************************************************)
C4_InitialPopulation ==
    AfterConstruction =>
        LET n == last.args[1]
            k == last.args[3]
            m == last.args[4]
        IN  /\ Len(population) = n
            /\ \A i \in 1..n :
                  /\ i <= k => population[i].sickness = INFECTED
                  /\ (k < i /\ i <= k + m) => is_immune(population[i])
                  /\ i > k + m => is_vulnerable(population[i])
            /\ time = 0

C4_Constructed ==
    /\ AfterConstruction
    /\ last.args[3] = 1
    /\ last.args[4] = 1
    /\ Len(population) = 3

(***************************************************************************)
(* C5: two cells within the contact radius at the start of a               *)
(* check_contacts pass, one infected and the other vulnerable, are both    *)
(* infected at the end of the pass.                                        *)
(***************************************************************************)
C5_ContactInfectsBoth ==
    AfterUnit("check_contacts") =>
        \A i, j \in Cells :
            (/\ i # j
             /\ Near(before[i], before[j])
             /\ TierInfected(before[i])
             /\ TierVulnerable(before[j]))
                => TierInfected(population[i]) /\ TierInfected(population[j])

C5_PairInfected ==
    /\ AfterUnit("check_contacts")
    /\ \E i, j \in Cells :
          /\ i > j
          /\ Near(before[i], before[j])
          /\ TierInfected(before[i])
          /\ TierVulnerable(before[j])
          /\ TierInfected(population[j])

(***************************************************************************)
(* C6: contact_with changes neither cell when the pair is                  *)
(* vulnerable-vulnerable, infected-infected, or holds an immune cell; it   *)
(* changes health only when one is infected and the other vulnerable.      *)
(***************************************************************************)
C6_ContactFrame ==
    AfterUnit("contact_with") =>
        LET a == before[last.args[1]]
            b == before[last.args[2]]
        IN  /\ (\/ TierVulnerable(a) /\ TierVulnerable(b)
                \/ TierInfected(a) /\ TierInfected(b)
                \/ TierImmune(a)
                \/ TierImmune(b)) => population = before
            /\ population # before =>
                  \/ TierInfected(a) /\ TierVulnerable(b)
                  \/ TierVulnerable(a) /\ TierInfected(b)

(***************************************************************************)
(* C7: is_complete() returns true exactly when no cell is in the Infected  *)
(* tier, whatever the mix of vulnerable and immune cells.                  *)
(***************************************************************************)
C7_CompleteIffNoneInfected ==
    AfterUnit("is_complete") =>
        (last.result = "True" <=> \A i \in Cells : ~TierInfected(population[i]))

(***************************************************************************)
(* C8: after the first tick of a Model built with speed 0, one infection   *)
(* and no immunity, the infected cells are exactly the first cell and the  *)
(* cells within the contact radius of it, every other cell is vulnerable,  *)
(* and time is 1.  (Stated for every population size of the model.)        *)
(***************************************************************************)
Still == \A i \in Cells : before[i].direction = Point(0, 0)

FirstTickOfStillOutbreak ==
    /\ AfterTick
    /\ ticks = 1
    /\ initial_infections = 1
    /\ initial_immunities = 0
    /\ Still

PairRank(a, b) ==
    IF a < b THEN a * (Len(population) + 1) + b ELSE b * (Len(population) + 1) + a

\* The cells linked to the first cell by a chain of cells, each within the
\* contact radius of the one before it, whose pairs are examined in
\* increasing order; each with the place of the last pair of its chain.
RECURSIVE ChainsOf(_)
ChainsOf(n) ==
    IF n = 0 THEN {<<1, 0>>}
    ELSE UNION {{c} \cup
                   {<<v, PairRank(c[1], v)>> :
                       v \in {w \in Cells : /\ w # c[1]
                                            /\ Near(population[c[1]], population[w])
                                            /\ PairRank(c[1], w) > c[2]}} :
                c \in ChainsOf(n - 1)}

ChainReach == {c[1] : c \in ChainsOf(Len(population))}

C9_BoundedAndFlipped ==
    AfterUnit("enforce_bounds") =>
        LET old == before[last.args[1]]
            new == population[last.args[1]]
        IN  /\ new.location.x >= MIN_X /\ new.location.x <= MAX_X
            /\ new.location.y >= MIN_Y /\ new.location.y <= MAX_Y
            /\ new.location.x # old.location.x => new.direction.x = -old.direction.x
            /\ new.location.y # old.location.y => new.direction.y = -old.direction.y

C9_CornerClamped ==
    /\ AfterUnit("enforce_bounds")
    /\ before[1].location.x > MAX_X
    /\ before[1].location.y < MIN_Y
    /\ before[1].direction = Point(1, -1)
    /\ population[1].location = Point(MAX_X, MIN_Y)

(***************************************************************************)
(* C10: time is 0 after construction, every Model.tick adds exactly 1 to   *)
(* it, check_contacts, enforce_bounds and is_complete leave it alone, it   *)
(* never decreases, and it equals the number of ticks made.                *)
(***************************************************************************)
C10_TimeCountsTicks ==
    [][/\ (status = "new" /\ status' = "ok") => time' = 0
       /\ (status = "ok" /\ last'.op = "tick") => time' = time + 1
       /\ (status = "ok" /\ last'.op \in {"check_contacts", "enforce_bounds",
                                          "is_complete"}) => time' = time
       /\ time' >= time
       /\ time' = ticks']_vars

C10_CallAfterTicks ==
    /\ status = "ok"
    /\ last.op = "check_contacts"
    /\ ticks = 2
    /\ time = 2

NoVulnerablePairNear(pop) ==
    \A i, j \in 1..Len(pop) :
        (i # j /\ is_vulnerable(pop[i]) /\ is_vulnerable(pop[j]))
            => ~Near(pop[i], pop[j])

C12_CounterGrowsByOne ==
    AfterTick =>
        \A i \in Cells :
            (TierInfected(before[i]) /\ TierInfected(population[i]))
                => population[i].sickness = before[i].sickness + 1

(***************************************************************************)
(* C13: Cell.tick leaves a cell that starts at or above the ceiling at     *)
(* the Immune value (is_immune, not is_infected), raises an infected cell  *)
(* below the ceiling by exactly 1, and leaves a vulnerable cell's health   *)
(* alone.                                                                  *)
(***************************************************************************)
C13_CellTickHealth ==
    AfterUnit("Cell.tick") =>
        LET old == before[last.args[1]]
            new == population[last.args[1]]
        IN  /\ old.sickness >= CEILING =>
                  /\ new.sickness = IMMUNE
                  /\ is_immune(new)
                  /\ ~is_infected(new)
            /\ (old.sickness >= INFECTED /\ old.sickness < CEILING) =>
                  new.sickness = old.sickness + 1
            /\ is_vulnerable(old) => new.sickness = old.sickness

(***************************************************************************)
(* C14: in every state of a constructed Model each cell satisfies exactly  *)
(* one of is_vulnerable, is_infected, is_immune, and an immune cell is     *)
(* colored green.                                                          *)
(***************************************************************************)
C14_ExactlyOneTier ==
    status = "ok" =>
        \A i \in Cells :
            LET cell == population[i]
            IN  /\ is_vulnerable(cell) \/ is_infected(cell) \/ is_immune(cell)
                /\ ~(is_vulnerable(cell) /\ is_infected(cell))
                /\ ~(is_vulnerable(cell) /\ is_immune(cell))
                /\ ~(is_infected(cell) /\ is_immune(cell))
                /\ is_immune(cell) => color(cell) = "green"

(***************************************************************************)
(* C15: within one Model.tick every cell is moved and bounded before the   *)
(* single contact pass, which runs last: every cell ends the tick at its   *)
(* old location plus its direction, clamped to the arena, and the cells    *)
(* infected by the tick are exactly those one pass over these new          *)
(* locations infects (the vulnerable cells linked to an infected cell by   *)
(* a chain of cells within the radius at the new locations, examined in    *)
(* increasing pair order).                                                 *)
(***************************************************************************)
Clamp(v, lo, hi) == IF v > hi THEN hi ELSE IF v < lo THEN lo ELSE v

NewPlace(cell) ==
    Point(Clamp(cell.location.x + cell.direction.x, MIN_X, MAX_X),
          Clamp(cell.location.y + cell.direction.y, MIN_Y, MAX_Y))

RECURSIVE TickChains(_)
TickChains(n) ==
    IF n = 0 THEN {<<s, 0>> : s \in {i \in Cells : is_infected(before[i])}}
    ELSE UNION {{c} \cup
                   {<<v, PairRank(c[1], v)>> :
                       v \in {w \in Cells : /\ w # c[1]
                                            /\ Near(population[c[1]], population[w])
                                            /\ PairRank(c[1], w) > c[2]}} :
                c \in TickChains(n - 1)}

TickReach == {c[1] : c \in TickChains(Len(population))}

C15_ContactsAfterMovement ==
    AfterTick =>
        /\ \A i \in Cells : population[i].location = NewPlace(before[i])
        /\ {i \in Cells : is_infected(population[i])} = TickReach

C15_InfectedAtNewPlace ==
    /\ AfterTick
    /\ \E i \in Cells :
          /\ is_vulnerable(before[i])
          /\ is_infected(population[i])
          /\ population[i].location # before[i].location
          /\ \A j \in Cells : j # i => ~Near(before[i], before[j])

(***************************************************************************)
(* C16: a Model.tick keeps the absolute value of each velocity component   *)
(* of every cell; a component is negated when enforce_bounds clamped that  *)
(* axis in the tick (the moved coordinate lay outside the arena) and is    *)
(* unchanged when it did not.                                              *)
(***************************************************************************)
Abs(v) == IF v < 0 THEN -v ELSE v

C16_VelocityOnlyFlipsOnClamp ==
    AfterTick =>
        \A i \in Cells :
            LET old == before[i]
                new == population[i]
                x == old.location.x + old.direction.x
                y == old.location.y + old.direction.y
            IN  /\ Abs(new.direction.x) = Abs(old.direction.x)
                /\ Abs(new.direction.y) = Abs(old.direction.y)
                /\ (x > MAX_X \/ x < MIN_X) => new.direction.x = -old.direction.x
                /\ (x <= MAX_X /\ x >= MIN_X) => new.direction.x = old.direction.x
                /\ (y > MAX_Y \/ y < MIN_Y) => new.direction.y = -old.direction.y
                /\ (y <= MAX_Y /\ y >= MIN_Y) => new.direction.y = old.direction.y

C16_BouncedOffFloor ==
    /\ AfterTick
    /\ ticks = 2
    /\ \E i \in Cells :
          /\ before[i].direction = Point(0, -1)
          /\ population[i].direction = Point(0, 1)
          /\ population[i].location.y = MIN_Y

(***************************************************************************)
(* C17: a Model.tick never takes a cell from Immune to Infected, and       *)
(* never takes a vulnerable cell to Immune.                                *)
(***************************************************************************)
C17_ContactSparesImmune ==
    AfterTick =>
        \A i \in Cells :
            /\ TierImmune(before[i]) => ~TierInfected(population[i])
            /\ TierVulnerable(before[i]) => ~TierImmune(population[i])

(***************************************************************************)
(* C18: every outbreak dies out: once a Model has been ticked (ceiling +   *)
(* 1) times (initially vulnerable cells + 1) times, is_complete() is true. *)
(***************************************************************************)
OutbreakBound ==
    (CEILING + 1) * (Len(population) - initial_infections - initial_immunities + 1)

C18_OutbreakDiesOut ==
    (status = "ok" /\ ticks >= OutbreakBound) => is_complete(population)

====
